---------------------------- MODULE Spec2Model ----------------------------
(***************************************************************************)
(* Integration Contract Validator (src/app.py, src/ai_layer.py).           *)
(*                                                                         *)
(* One run of the Streamlit script after the Validate button is pressed:   *)
(* parse the schema text, parse the payload text, build the validator      *)
(* (strict-mode rewrite), collect and sort the validation errors, build    *)
(* the report, display and export it, then optionally call the model and   *)
(* show its explanation.  st.stop() ends the run; pressing Validate again  *)
(* reruns the script from the top with the widgets' current values.        *)
(*                                                                         *)
(* JSON values are tagged records:                                         *)
(*   null    [t |-> "null"]            number [t |-> "num", n |-> 1]       *)
(*   boolean [t |-> "bool", b |-> x]   string [t |-> "str", s |-> "a"]     *)
(*   array   [t |-> "arr", a |-> <<v, ...>>]                               *)
(*   object  [t |-> "obj", o |-> << <<key, v>>, ... >>]  (a Python dict    *)
(*           keeps insertion order, which the engine's iteration follows). *)
(***************************************************************************)
EXTENDS Integers, Sequences, FiniteSets, TLC

VARIABLES
    pc,                \* position of the script run
    schema_text,       \* text area "JSON Schema"
    payload_text,      \* text area "JSON Payload"
    strict_mode,       \* toggle, app.py:23
    enable_ai,         \* toggle, app.py:27
    api_key,           \* text input, app.py:30
    schema,            \* the caller's parsed schema object, app.py:94
    payload,           \* the parsed payload, app.py:100
    validator_schema,  \* the schema held by the validator, app.py:64
    issues,            \* the sorted raw errors, app.py:107
    report,            \* the report dict, app.py:87
    ui,                \* what the output column shows
    ai_calls,          \* calls of chat.completions.create in this run
    ai_content,        \* the model's response text (or the call's failure)
    ai_out             \* what call_openai_for_explanation returned

vars == <<pc, schema_text, payload_text, strict_mode, enable_ai, api_key,
          schema, payload, validator_schema, issues, report, ui,
          ai_calls, ai_content, ai_out>>

---------------------------------------------------------------------------
(* JSON values *)

JNull == [t |-> "null"]
JBool(b) == [t |-> "bool", b |-> b]
JNum(n) == [t |-> "num", n |-> n]
JStr(s) == [t |-> "str", s |-> s]
JArr(a) == [t |-> "arr", a |-> a]
JObj(o) == [t |-> "obj", o |-> o]

\* A variable that holds nothing yet (the Python name is not bound).
Unset == [t |-> "unset"]

IsObj(v) == v.t = "obj"
IsArr(v) == v.t = "arr"
IsStr(v) == v.t = "str"

\* The keys of a dict, in order.
Keys(v) == [i \in 1..Len(v.o) |-> v.o[i][1]]

\* key in dict
HasKey(v, k) == \E i \in 1..Len(v.o) : v.o[i][1] = k

\* dict[key]
Get(v, k) == v.o[CHOOSE i \in 1..Len(v.o) : v.o[i][1] = k][2]

\* dict.get(key, default)
GetOr(v, k, d) == IF HasKey(v, k) THEN Get(v, k) ELSE d

Min(a, b) == IF a < b THEN a ELSE b

---------------------------------------------------------------------------
(* The validation engine: Draft202012Validator of the jsonschema library,  *)
(* as app.py uses it.  The constructor stores the schema and does not      *)
(* check it (check_schema is never called); iter_errors walks the schema's *)
(* keywords in dict order and evaluates each keyword it knows against the  *)
(* instance.  The keywords modelled are those the schemas below use: type, *)
(* properties, additionalProperties, required, items, minItems, enum,      *)
(* minimum; any other key is skipped, as an unknown keyword is.            *)
(*                                                                         *)
(* A result is [exc, errs]: exc = "" and the errors yielded, or the name   *)
(* of the exception raised while iterating.                                *)

NoErrors == [exc |-> "", errs |-> <<>>]
Raise(e) == [exc |-> e, errs |-> <<>>]

\* Errors of r1, then of r2; the first exception ends the iteration.
Then(r1, r2) ==
    IF r1.exc # "" THEN r1
    ELSE IF r2.exc # "" THEN r2
    ELSE [exc |-> "", errs |-> r1.errs \o r2.errs]

\* A path segment: a property name (str) or an array index (int).
KeySeg(s) == [k |-> "key", s |-> s]
IdxSeg(i) == [k |-> "idx", i |-> i]

\* ValidationError(message) with the fields _set fills in.
ValidationError(message, keyword, value, instance) ==
    [message |-> message, path |-> <<>>, schema_path |-> <<>>,
     validator |-> keyword, validator_value |-> value, instance |-> instance]

KnownTypes == {"object", "array", "string", "number", "integer", "boolean", "null"}

\* TypeChecker.is_type for a known type name (numbers of the model are integers).
is_type(instance, type) ==
    CASE type = "object" -> instance.t = "obj"
      [] type = "array" -> instance.t = "arr"
      [] type = "string" -> instance.t = "str"
      [] type \in {"number", "integer"} -> instance.t = "num"
      [] type = "boolean" -> instance.t = "bool"
      [] type = "null" -> instance.t = "null"

\* _utils.ensure_list
ensure_list(types) == IF IsStr(types) THEN <<types>> ELSE types.a

\* any(validator.is_type(instance, type) for type in types), from position i:
\* "yes", "no", or "UnknownType" when a name that is no type is reached first.
RECURSIVE AnyType(_, _, _)
AnyType(instance, types, i) ==
    IF i > Len(types) THEN "no"
    ELSE IF ~IsStr(types[i]) \/ types[i].s \notin KnownTypes THEN "UnknownType"
    ELSE IF is_type(instance, types[i].s) THEN "yes"
    ELSE AnyType(instance, types, i + 1)

\* _keywords.type
kw_type(types, instance) ==
    IF ~(IsStr(types) \/ IsArr(types)) THEN Raise("UnknownType")
    ELSE LET r == AnyType(instance, ensure_list(types), 1) IN
         CASE r = "UnknownType" -> Raise("UnknownType")
           [] r = "yes" -> NoErrors
           [] r = "no" -> [exc |-> "", errs |->
                  <<ValidationError("is not of type", JStr("type"), types, instance)>>]

\* _keywords.required: one error per missing name, in the list's order.
RECURSIVE RequiredFrom(_, _, _)
RequiredFrom(required, instance, i) ==
    IF i > Len(required.a) THEN <<>>
    ELSE (IF IsStr(required.a[i]) /\ HasKey(instance, required.a[i].s) THEN <<>>
          ELSE <<ValidationError("is a required property", JStr("required"),
                                 required, instance)>>)
         \o RequiredFrom(required, instance, i + 1)

kw_required(required, instance) ==
    IF ~IsObj(instance) THEN NoErrors
    ELSE IF ~IsArr(required) THEN Raise("TypeError")
    ELSE [exc |-> "", errs |-> RequiredFrom(required, instance, 1)]

\* _keywords.minItems
kw_minItems(mI, instance) ==
    IF ~IsArr(instance) THEN NoErrors
    ELSE IF mI.t # "num" THEN Raise("TypeError")
    ELSE IF Len(instance.a) < mI.n
         THEN [exc |-> "", errs |->
                  <<ValidationError("is too short", JStr("minItems"), mI, instance)>>]
         ELSE NoErrors

\* _keywords.minimum
kw_minimum(minimum, instance) ==
    IF instance.t # "num" THEN NoErrors
    ELSE IF minimum.t # "num" THEN Raise("TypeError")
    ELSE IF instance.n < minimum.n
         THEN [exc |-> "", errs |->
                  <<ValidationError("is less than the minimum", JStr("minimum"),
                                    minimum, instance)>>]
         ELSE NoErrors

\* _keywords.enum
kw_enum(enums, instance) ==
    IF ~IsArr(enums) THEN Raise("TypeError")
    ELSE IF \E i \in 1..Len(enums.a) : enums.a[i] = instance THEN NoErrors
    ELSE [exc |-> "", errs |->
             <<ValidationError("is not one of", JStr("enum"), enums, instance)>>]

\* _utils.find_additional_properties: the instance's keys that are not under
\* the schema's "properties", in the instance's order.
find_additional_properties(instance, sch) ==
    LET properties == GetOr(sch, "properties", JObj(<<>>)) IN
    SelectSeq(Keys(instance), LAMBDA k : ~(IsObj(properties) /\ HasKey(properties, k)))

\* Validator.descend's bookkeeping on the errors of a subschema: the path
\* segment and the schema path segment are put in front (None: left out).
Descended(r, pathseg, schema_seg) ==
    [exc |-> r.exc,
     errs |-> [i \in 1..Len(r.errs) |->
                 [r.errs[i] EXCEPT !.path = pathseg \o @,
                                   !.schema_path = schema_seg \o @]]]

\* iter_errors puts the keyword in front of the schema path of its errors.
UnderKeyword(r, k) ==
    [exc |-> r.exc,
     errs |-> [i \in 1..Len(r.errs) |->
                 [r.errs[i] EXCEPT !.schema_path = <<k>> \o @]]]

RECURSIVE iter_errors(_, _)
RECURSIVE KeywordsFrom(_, _, _)
RECURSIVE PropertiesFrom(_, _, _)
RECURSIVE ExtrasFrom(_, _, _, _)
RECURSIVE ItemsFrom(_, _, _)

\* _keywords.properties: each declared property the instance has is
\* validated against its subschema; a property the instance lacks is not.
PropertiesFrom(properties, instance, i) ==
    IF i > Len(properties.o) THEN NoErrors
    ELSE LET property == properties.o[i][1]
             subschema == properties.o[i][2]
         IN Then(IF HasKey(instance, property)
                 THEN Descended(iter_errors(subschema, Get(instance, property)),
                                <<KeySeg(property)>>, <<property>>)
                 ELSE NoErrors,
                 PropertiesFrom(properties, instance, i + 1))

kw_properties(properties, instance) ==
    IF ~IsObj(instance) THEN NoErrors
    ELSE IF ~IsObj(properties) THEN Raise("AttributeError")
    ELSE PropertiesFrom(properties, instance, 1)

\* _keywords.additionalProperties with a schema for the extra properties.
\* (The engine walks a set of the extras; their errors have different paths,
\* so the sort that follows fixes their order whatever the set's order is.)
ExtrasFrom(aP, instance, extras, i) ==
    IF i > Len(extras) THEN NoErrors
    ELSE Then(Descended(iter_errors(aP, Get(instance, extras[i])),
                        <<KeySeg(extras[i])>>, <<>>),
              ExtrasFrom(aP, instance, extras, i + 1))

\* bool(aP) for the values that are no dict.
Truthy(v) ==
    CASE v.t = "bool" -> v.b
      [] v.t = "num" -> v.n # 0
      [] v.t = "str" -> v.s # ""
      [] v.t = "arr" -> Len(v.a) > 0
      [] v.t = "null" -> FALSE
      [] v.t = "obj" -> Len(v.o) > 0

kw_additionalProperties(aP, instance, sch) ==
    IF ~IsObj(instance) THEN NoErrors
    ELSE LET extras == find_additional_properties(instance, sch) IN
         IF IsObj(aP) THEN ExtrasFrom(aP, instance, extras, 1)
         ELSE IF ~Truthy(aP) /\ Len(extras) > 0
              THEN [exc |-> "", errs |->
                       <<ValidationError("Additional properties are not allowed",
                                         JStr("additionalProperties"), aP, instance)>>]
              ELSE NoErrors

\* _keywords.items (no prefixItems in the model's schemas)
ItemsFrom(items, instance, i) ==
    IF i > Len(instance.a) THEN NoErrors
    ELSE Then(Descended(iter_errors(items, instance.a[i]), <<IdxSeg(i - 1)>>, <<>>),
              ItemsFrom(items, instance, i + 1))

kw_items(items, instance) ==
    IF ~IsArr(instance) THEN NoErrors
    ELSE ItemsFrom(items, instance, 1)

\* One keyword of the schema, as iter_errors' loop body evaluates it.
Keyword(k, v, instance, sch) ==
    CASE k = "type" -> kw_type(v, instance)
      [] k = "properties" -> kw_properties(v, instance)
      [] k = "additionalProperties" -> kw_additionalProperties(v, instance, sch)
      [] k = "required" -> kw_required(v, instance)
      [] k = "items" -> kw_items(v, instance)
      [] k = "minItems" -> kw_minItems(v, instance)
      [] k = "minimum" -> kw_minimum(v, instance)
      [] k = "enum" -> kw_enum(v, instance)
      [] OTHER -> NoErrors

KeywordsFrom(sch, instance, i) ==
    IF i > Len(sch.o) THEN NoErrors
    ELSE Then(UnderKeyword(Keyword(sch.o[i][1], sch.o[i][2], instance, sch),
                           sch.o[i][1]),
              KeywordsFrom(sch, instance, i + 1))

\* Validator.iter_errors(instance) for the schema sch: true accepts, false
\* rejects, a dict is walked keyword by keyword, anything else has no items().
iter_errors(sch, instance) ==
    IF sch.t = "bool"
    THEN IF sch.b THEN NoErrors
         ELSE [exc |-> "", errs |->
                  <<ValidationError("False schema does not allow", JNull, JNull, instance)>>]
    ELSE IF ~IsObj(sch) THEN Raise("AttributeError")
    ELSE KeywordsFrom(sch, instance, 1)

---------------------------------------------------------------------------
(* Python's built-ins, as the script uses them *)

\* The code points of the property names that occur in the payloads below
\* (Python compares str values code point by code point).
CodePoints(s) ==
    CASE s = "a" -> <<97>>
      [] s = "b" -> <<98>>
      [] s = "x" -> <<120>>
      [] s = "y" -> <<121>>
      [] s = "ab" -> <<97, 98>>

\* Lexicographic order of two sequences of integers.
IntSeqLess(u, v) ==
    LET n == Min(Len(u), Len(v))
        D == {i \in 1..n : u[i] # v[i]}
    IN IF D = {} THEN Len(u) < Len(v)
       ELSE LET i == CHOOSE j \in D : \A m \in D : j <= m IN u[i] < v[i]

\* a < b for two path segments: int with int, str with str; an int and a str
\* have no order ("'<' not supported between instances of 'int' and 'str'").
SegLess(a, b) ==
    IF a.k = "idx" /\ b.k = "idx" THEN (IF a.i < b.i THEN "lt" ELSE "ge")
    ELSE IF a.k = "key" /\ b.k = "key"
         THEN (IF IntSeqLess(CodePoints(a.s), CodePoints(b.s)) THEN "lt" ELSE "ge")
    ELSE "TypeError"

\* p < q for two lists: the first position where they differ decides, and
\* when there is none the shorter list is the smaller.
PyListLess(p, q) ==
    LET n == Min(Len(p), Len(q))
        D == {i \in 1..n : p[i] # q[i]}
    IN IF D = {} THEN (IF Len(p) < Len(q) THEN "lt" ELSE "ge")
       ELSE LET i == CHOOSE j \in D : \A m \in D : j <= m IN SegLess(p[i], q[i])

\* The sort key of app.py:107, key=lambda e: list(e.path).
SortKey(e) == e.path

\* Where x goes in the sorted list s, looking back from position j: after
\* the last element that x is not smaller than (the sort is stable); -1 when
\* a comparison raises.
RECURSIVE InsertPos(_, _, _)
InsertPos(x, s, j) ==
    IF j = 0 THEN 0
    ELSE LET c == PyListLess(SortKey(x), SortKey(s[j])) IN
         IF c = "TypeError" THEN -1
         ELSE IF c = "lt" THEN InsertPos(x, s, j - 1)
         ELSE j

\* The first n elements of errs, sorted.
RECURSIVE SortedPrefix(_, _)
SortedPrefix(errs, n) ==
    IF n = 0 THEN NoErrors
    ELSE LET r == SortedPrefix(errs, n - 1) IN
         IF r.exc # "" THEN r
         ELSE LET j == InsertPos(errs[n], r.errs, Len(r.errs)) IN
              IF j = -1 THEN Raise("TypeError")
              ELSE [exc |-> "",
                    errs |-> SubSeq(r.errs, 1, j) \o <<errs[n]>>
                             \o SubSeq(r.errs, j + 1, Len(r.errs))]

\* A report builder that keeps the engine's order (no sort).
sorted_EngineOrder(r) == r

\* sorted(validator.iter_errors(payload), key=lambda e: list(e.path)): the
\* iterator is consumed first (and may raise), then the list is sorted.
sorted(r) == IF r.exc # "" THEN r ELSE SortedPrefix(r.errs, Len(r.errs))

\* sep.join(strs)
RECURSIVE Join(_, _)
Join(sep, strs) ==
    IF Len(strs) = 0 THEN ""
    ELSE IF Len(strs) = 1 THEN strs[1]
    ELSE strs[1] \o sep \o Join(sep, Tail(strs))

\* str(p) for a path segment
SegStr(p) == IF p.k = "idx" THEN ToString(p.i) ELSE p.s

\* dict(x): a dict is copied (one level); a list must hold pairs; a str is
\* walked character by character, so only "" converts; a number, a boolean
\* and None are not iterable.  (The lists of the schemas below are empty or
\* hold two-element lists whose first element is a str.)
PyDict(x) ==
    CASE x.t = "obj" -> [exc |-> "", v |-> x]
      [] x.t = "arr" ->
           IF \A i \in 1..Len(x.a) :
                  IsArr(x.a[i]) /\ Len(x.a[i].a) = 2 /\ IsStr(x.a[i].a[1])
           THEN [exc |-> "",
                 v |-> JObj([i \in 1..Len(x.a) |-> <<x.a[i].a[1].s, x.a[i].a[2]>>])]
           ELSE [exc |-> "TypeError", v |-> Unset]
      [] x.t = "str" ->
           IF x.s = "" THEN [exc |-> "", v |-> JObj(<<>>)]
           ELSE [exc |-> "ValueError", v |-> Unset]
      [] OTHER -> [exc |-> "TypeError", v |-> Unset]

\* d.setdefault(k, v)
SetDefault(d, k, v) == IF HasKey(d, k) THEN d ELSE JObj(Append(d.o, <<k, v>>))

---------------------------------------------------------------------------
(* app.py *)

\* A rewriter without the copy of app.py:60: setdefault then writes into the
\* caller's dict.
StrictCopy_InPlace(sch) ==
    LET c == PyDict(sch)
        m == IF GetOr(c.v, "type", JNull) = JStr("object")
             THEN SetDefault(c.v, "additionalProperties", JBool(FALSE))
             ELSE c.v
    IN IF c.exc # "" THEN [exc |-> c.exc, schema |-> Unset, caller |-> sch]
       ELSE [exc |-> "", schema |-> m, caller |-> m]

\* _build_validator(schema, strict): the schema the validator holds
\* (schema), the caller's object after the call (caller) and the exception
\* raised, if any.  Draft202012Validator(schema) stores the schema as it is.
StrictCopy(sch) ==
    LET c == PyDict(sch) IN
    IF c.exc # "" THEN [exc |-> c.exc, schema |-> Unset, caller |-> sch]
    ELSE [exc |-> "",
          schema |-> IF GetOr(c.v, "type", JNull) = JStr("object")
                     THEN SetDefault(c.v, "additionalProperties", JBool(FALSE))
                     ELSE c.v,
          caller |-> sch]

_build_validator(sch, strict) ==
    IF strict THEN StrictCopy(sch)
    ELSE [exc |-> "", schema |-> sch, caller |-> sch]

\* _format_issue(err)
_format_issue(err) ==
    [message |-> err.message,
     path |-> Join(".", [i \in 1..Len(err.path) |-> SegStr(err.path[i])]),
     schema_path |-> Join("/", err.schema_path),
     validator |-> err.validator,
     expected |-> err.validator_value,
     invalid_value |-> err.instance]

\* The report dict as created at app.py:87.
Placeholder == [pass |-> FALSE, issue_count |-> 0, issues |-> <<>>]

\* A report builder that leaves out app.py:110: pass keeps the placeholder's
\* value.
FillReport_PassNotSet(sortedErrs) ==
    LET rows == [i \in 1..Len(sortedErrs) |-> _format_issue(sortedErrs[i])]
    IN [pass |-> Placeholder.pass, issue_count |-> Len(rows), issues |-> rows]

\* app.py:108-110: the three assignments to the report.
FillReport(sortedErrs) ==
    LET rows == [i \in 1..Len(sortedErrs) |-> _format_issue(sortedErrs[i])]
    IN [pass |-> (Len(rows) = 0), issue_count |-> Len(rows), issues |-> rows]

---------------------------------------------------------------------------
(* The texts a user can paste, and json.loads on them *)

TypeIs(name) == <<"type", JStr(name)>>
XIsString == <<"properties", JObj(<< <<"x", JObj(<<TypeIs("string")>>)>> >>)>>

\* <<text, json.loads(text)>>, with Unset where the text is no JSON document.
SchemaDocs == <<
    <<"", Unset>>,
    <<"{\"type\": ", Unset>>,
    <<"{\"type\":\"object\",\"properties\":{\"x\":{\"type\":\"string\"}}}",
      JObj(<<TypeIs("object"), XIsString>>)>>,
    <<"{\"type\":\"object\",\"properties\":{\"x\":{\"type\":\"string\"}},\"additionalProperties\":true}",
      JObj(<<TypeIs("object"), XIsString, <<"additionalProperties", JBool(TRUE)>> >>)>>,
    <<"{\"properties\":{\"x\":{\"type\":\"string\"}}}",
      JObj(<<XIsString>>)>>,
    <<"{\"type\":\"thisisnotatype\"}",
      JObj(<<TypeIs("thisisnotatype")>>)>>,
    <<"{\"type\":\"object\",\"properties\":{\"x\":{\"type\":\"thisisnotatype\"}}}",
      JObj(<<TypeIs("object"),
             <<"properties", JObj(<< <<"x", JObj(<<TypeIs("thisisnotatype")>>)>> >>)>> >>)>>,
    <<"{\"properties\":{\"b\":{\"type\":\"string\"},\"a\":{\"type\":\"array\",\"minItems\":3,\"items\":{\"type\":\"string\"}}},\"required\":[\"x\"]}",
      JObj(<< <<"properties",
                JObj(<< <<"b", JObj(<<TypeIs("string")>>)>>,
                        <<"a", JObj(<<TypeIs("array"), <<"minItems", JNum(3)>>,
                                      <<"items", JObj(<<TypeIs("string")>>)>> >>)>> >>)>>,
              <<"required", JArr(<<JStr("x")>>)>> >>)>>,
    <<"{\"additionalProperties\":{\"type\":\"string\"}}",
      JObj(<< <<"additionalProperties", JObj(<<TypeIs("string")>>)>> >>)>>,
    <<"{\"type\":\"array\",\"items\":{\"type\":\"object\",\"properties\":{\"x\":{\"type\":\"string\"}}}}",
      JObj(<<TypeIs("array"), <<"items", JObj(<<TypeIs("object"), XIsString>>)>> >>)>>,
    <<"true", JBool(TRUE)>>,
    <<"false", JBool(FALSE)>>,
    <<"[]", JArr(<<>>)>>,
    <<"[[\"type\",\"object\"]]", JArr(<<JArr(<<JStr("type"), JStr("object")>>)>>)>>,
    <<"5", JNum(5)>>,
    <<"\"abc\"", JStr("abc")>>,
    <<"null", JNull>> >>

PayloadDocs == <<
    <<"{x", Unset>>,
    <<"{\"x\":\"ok\",\"y\":1}", JObj(<< <<"x", JStr("ok")>>, <<"y", JNum(1)>> >>)>>,
    <<"{\"x\":\"ok\"}", JObj(<< <<"x", JStr("ok")>> >>)>>,
    <<"{}", JObj(<<>>)>>,
    <<"{\"x\":5}", JObj(<< <<"x", JNum(5)>> >>)>>,
    <<"{\"b\":1,\"a\":[1,2]}",
      JObj(<< <<"b", JNum(1)>>, <<"a", JArr(<<JNum(1), JNum(2)>>)>> >>)>>,
    <<"{\"ab\":1,\"b\":2,\"a\":3}",
      JObj(<< <<"ab", JNum(1)>>, <<"b", JNum(2)>>, <<"a", JNum(3)>> >>)>>,
    <<"[{\"x\":1,\"y\":2},5]",
      JArr(<<JObj(<< <<"x", JNum(1)>>, <<"y", JNum(2)>> >>), JNum(5)>>)>>,
    <<"7", JNum(7)>> >>

\* A str of 256 characters, longer than the summary's 240.
A16 == "aaaaaaaaaaaaaaaa"
A64 == A16 \o A16 \o A16 \o A16
LongText == A64 \o A64 \o A64 \o A64

TopIssue(severity) ==
    JObj(<< <<"path", JStr("x")>>, <<"explanation", JStr("e")>>,
            <<"severity", JStr(severity)>>, <<"business_impact", JStr("i")>> >>)
Fix == JObj(<< <<"target", JStr("payload:/x")>>, <<"suggestion", JStr("s")>> >>)
Explanation(summary, top, extra) ==
    JObj(<< <<"summary", summary>>, <<"top_issues", JArr(top)>>,
            <<"suggested_fixes", JArr(<<Fix>>)>>,
            <<"risk_notes", JArr(<<JStr("r")>>)>> >> \o extra)
ExplanationText(top, extra) ==
    "{\"summary\":\"s\",\"top_issues\":[" \o top
    \o "],\"suggested_fixes\":[{\"target\":\"payload:/x\",\"suggestion\":\"s\"}],\"risk_notes\":[\"r\"]"
    \o extra \o "}"
TopIssueText(severity) ==
    "{\"path\":\"x\",\"explanation\":\"e\",\"severity\":\"" \o severity
    \o "\",\"business_impact\":\"i\"}"

\* What the model may answer (message.content).
ContentDocs == <<
    <<"", Unset>>,
    <<"Here is the explanation you wanted", Unset>>,
    <<ExplanationText(TopIssueText("high"), ""),
      Explanation(JStr("s"), <<TopIssue("high")>>, <<>>)>>,
    <<ExplanationText("", ""), Explanation(JStr("s"), <<>>, <<>>)>>,
    <<ExplanationText(TopIssueText("critical"), ""),
      Explanation(JStr("s"), <<TopIssue("critical")>>, <<>>)>>,
    <<ExplanationText(TopIssueText("low"), ",\"explanation\":\"e\""),
      Explanation(JStr("s"), <<TopIssue("low")>>, << <<"explanation", JStr("e")>> >>)>>,
    <<"{\"explanation\":\"bad email\",\"fixes\":[{\"field\":\"email\",\"action\":\"use valid format\"}]}",
      JObj(<< <<"explanation", JStr("bad email")>>,
              <<"fixes", JArr(<<JObj(<< <<"field", JStr("email")>>,
                                        <<"action", JStr("use valid format")>> >>)>>)>> >>)>>,
    <<"{\"explanation\":\"bad email\"}", JObj(<< <<"explanation", JStr("bad email")>> >>)>>,
    <<"{\"explanation\":\"" \o LongText \o "\",\"fixes\":[]}",
      JObj(<< <<"explanation", JStr(LongText)>>, <<"fixes", JArr(<<>>)>> >>)>>,
    <<"{\"explanation\":5,\"fixes\":[]}",
      JObj(<< <<"explanation", JNum(5)>>, <<"fixes", JArr(<<>>)>> >>)>>,
    <<"{\"explanation\":\"e\",\"fixes\":[\"x\"]}",
      JObj(<< <<"explanation", JStr("e")>>, <<"fixes", JArr(<<JStr("x")>>)>> >>)>>,
    <<"{\"explanation\":\"e\",\"fixes\":[{\"field\":7}]}",
      JObj(<< <<"explanation", JStr("e")>>,
              <<"fixes", JArr(<<JObj(<< <<"field", JNum(7)>> >>)>>)>> >>)>>,
    <<"[\"explanation\"]", JArr(<<JStr("explanation")>>)>>,
    <<"[]", JArr(<<>>)>>,
    <<"5", JNum(5)>> >>

Texts(docs) == {docs[i][1] : i \in 1..Len(docs)}

AllDocs == SchemaDocs \o PayloadDocs \o ContentDocs

\* json.loads(text): the document, or JSONDecodeError.
json_loads(text) ==
    LET i == CHOOSE j \in 1..Len(AllDocs) : AllDocs[j][1] = text
        v == AllDocs[i][2]
    IN IF v = Unset THEN [exc |-> "JSONDecodeError", v |-> Unset]
       ELSE [exc |-> "", v |-> v]

\* _safe_json_load(text)
_safe_json_load(text) == json_loads(text)

---------------------------------------------------------------------------
(* ai_layer.py *)

StringType == JObj(<<TypeIs("string")>>)

AI_OUTPUT_SCHEMA ==
    JObj(<<
      TypeIs("object"),
      <<"additionalProperties", JBool(FALSE)>>,
      <<"required", JArr(<<JStr("summary"), JStr("top_issues"),
                           JStr("suggested_fixes"), JStr("risk_notes")>>)>>,
      <<"properties", JObj(<<
         <<"summary", StringType>>,
         <<"top_issues", JObj(<<
            TypeIs("array"),
            <<"minItems", JNum(1)>>,
            <<"items", JObj(<<
               TypeIs("object"),
               <<"additionalProperties", JBool(FALSE)>>,
               <<"required", JArr(<<JStr("path"), JStr("explanation"),
                                    JStr("severity"), JStr("business_impact")>>)>>,
               <<"properties", JObj(<<
                  <<"path", StringType>>,
                  <<"explanation", StringType>>,
                  <<"severity", JObj(<<TypeIs("string"),
                       <<"enum", JArr(<<JStr("low"), JStr("medium"), JStr("high")>>)>> >>)>>,
                  <<"business_impact", StringType>> >>)>> >>)>> >>)>>,
         <<"suggested_fixes", JObj(<<
            TypeIs("array"),
            <<"items", JObj(<<
               TypeIs("object"),
               <<"additionalProperties", JBool(FALSE)>>,
               <<"required", JArr(<<JStr("target"), JStr("suggestion")>>)>>,
               <<"properties", JObj(<<
                  <<"target", StringType>>,
                  <<"suggestion", StringType>> >>)>> >>)>> >>)>>,
         <<"risk_notes", JObj(<<TypeIs("array"), <<"items", StringType>> >>)>> >>)>> >>)

\* issues[:15] of build_ai_prompt
MaxPromptIssues == 15
\* explanation[:240] of the fallback mapping
SummaryLimit == 240

\* build_ai_prompt(report): the issues the prompt embeds.
build_ai_prompt(rep) == SubSeq(rep.issues, 1, Min(Len(rep.issues), MaxPromptIssues))

\* sub in s for two str values
Contains(s, sub) ==
    \E i \in 1..(Len(s) - Len(sub) + 1) : SubSeq(s, i, i + Len(sub) - 1) = sub

\* key in data: "yes", "no", or TypeError for a value that is no container.
In(key, data) ==
    CASE data.t = "obj" -> IF HasKey(data, key) THEN "yes" ELSE "no"
      [] data.t = "arr" -> IF \E i \in 1..Len(data.a) : data.a[i] = JStr(key)
                           THEN "yes" ELSE "no"
      [] data.t = "str" -> IF Contains(data.s, key) THEN "yes" ELSE "no"
      [] OTHER -> "TypeError"

\* value[:240]
Slice(v, n) ==
    CASE v.t = "str" -> [exc |-> "", v |-> JStr(SubSeq(v.s, 1, Min(Len(v.s), n)))]
      [] v.t = "arr" -> [exc |-> "", v |-> JArr(SubSeq(v.a, 1, Min(Len(v.a), n)))]
      [] OTHER -> [exc |-> "TypeError", v |-> Unset]

\* f"{value}" for the values a fix's field takes in the answers above.
Format(v) ==
    CASE v.t = "str" -> v.s
      [] v.t = "num" -> ToString(v.n)
      [] v.t = "null" -> "None"
      [] v.t = "bool" -> IF v.b THEN "True" ELSE "False"

\* The list comprehension of ai_layer.py:113-116 over data.get("fixes", []).
FixesOf(fixes) ==
    IF fixes.t \in {"num", "bool", "null"} THEN [exc |-> "TypeError", v |-> Unset]
    ELSE LET fs == CASE fixes.t = "arr" -> fixes.a
                     [] fixes.t = "obj" -> [i \in 1..Len(fixes.o) |-> JStr(fixes.o[i][1])]
                     [] fixes.t = "str" -> [i \in 1..Len(fixes.s) |-> JStr(SubSeq(fixes.s, i, i))]
         IN IF \E i \in 1..Len(fs) : ~IsObj(fs[i])
            THEN [exc |-> "AttributeError", v |-> Unset]
            ELSE [exc |-> "", v |-> JArr([i \in 1..Len(fs) |->
                    JObj(<< <<"target",
                              JStr("payload:/" \o Format(GetOr(fs[i], "field", JStr(""))))>>,
                            <<"suggestion", GetOr(fs[i], "action", JStr(""))>> >>)])]

\* The fallback mapping of ai_layer.py:109-118 on a dict that has
\* "explanation" and no "summary".
Reshape(data) ==
    LET summary == Slice(GetOr(data, "explanation", JStr("")), SummaryLimit)
        fixes == FixesOf(GetOr(data, "fixes", JArr(<<>>)))
    IN IF summary.exc # "" THEN [exc |-> summary.exc, v |-> Unset]
       ELSE IF fixes.exc # "" THEN [exc |-> fixes.exc, v |-> Unset]
       ELSE [exc |-> "",
             v |-> JObj(<< <<"summary", summary.v>>,
                           <<"top_issues", JArr(<<>>)>>,
                           <<"suggested_fixes", fixes.v>>,
                           <<"risk_notes", JArr(<<>>)>> >>)]

\* ai_layer.py:109: "summary" not in data and "explanation" in data
\* ("yes", "no", or the exception the test raises).
WantsFallback(data) ==
    LET a == In("summary", data) IN
    IF a = "TypeError" THEN "TypeError"
    ELSE IF a = "yes" THEN "no"
    ELSE In("explanation", data)

\* ai_layer.py:104-120, from the response's content to the value returned.
Adapt(content) ==
    LET parsed == json_loads(content) IN
    IF parsed.exc # "" THEN parsed
    ELSE LET w == WantsFallback(parsed.v) IN
         IF w = "TypeError" THEN [exc |-> "TypeError", v |-> Unset]
         ELSE IF w = "no" THEN parsed
         ELSE IF ~IsObj(parsed.v) THEN [exc |-> "AttributeError", v |-> Unset]
         ELSE Reshape(parsed.v)

\* What chat.completions.create may do: fail (network, auth, rate limit) or
\* return a message with some content.
Responses ==
    {[ok |-> FALSE, content |-> ""]}
    \cup {[ok |-> TRUE, content |-> c] : c \in Texts(ContentDocs)}

\* call_openai_for_explanation(api_key, report, model), given what the one
\* call of chat.completions.create does.
call_openai_for_explanation(resp) ==
    IF ~resp.ok THEN [exc |-> "APIError", v |-> Unset]
    ELSE Adapt(resp.content)

\* An AI section without the check of app.py:144.
Guardrail_Skipped(out) == ""

\* app.py:144, Draft202012Validator(AI_OUTPUT_SCHEMA).validate(ai_out): the
\* exception raised, "" when the object conforms.
Guardrail(out) ==
    LET r == iter_errors(AI_OUTPUT_SCHEMA, out) IN
    IF r.exc # "" THEN r.exc
    ELSE IF Len(r.errs) > 0 THEN "ValidationError"
    ELSE ""

---------------------------------------------------------------------------
(* The script run.  ui is the output column: the elements rendered so far, *)
(* each [w, text, arg] with w the Streamlit call, text its fixed text and  *)
(* arg the value it shows (an exception stands for its message).           *)

Elem(w, text, arg) == [w |-> w, text |-> text, arg |-> arg]

\* st.error(f"<text>: {e}")
ErrorElem(text, exc) == Elem("error", text, JStr(exc))

\* json.dumps(report, indent=2): the text of the report as it is now.
json_dumps(rep) == [t |-> "report", r |-> rep]

\* app.py:115-132: the banner, the issues table and the export.
ReportElems(rep) ==
    << IF rep.pass THEN Elem("success", "PASS", Unset)
       ELSE Elem("error", "FAIL", JNum(rep.issue_count)),
       IF Len(rep.issues) > 0 THEN Elem("dataframe", "Issues", [t |-> "rows", rows |-> rep.issues])
       ELSE Elem("info", "No issues found.", Unset),
       Elem("download_button", "validation_report.json", json_dumps(rep)) >>

\* An except block without st.stop(): the script runs on to the display.
AfterStageError_RunsOn == "show"

\* Where the run goes after an except block of the validation stage
\* (st.error, then st.stop()).
AfterStageError == "stopped"

\* An AI section without the test of app.py:136.
AIBranch_NoKeyTest(enabled, key) == IF ~enabled THEN "disabled" ELSE "call"

\* app.py:135-137: which branch of the AI section runs.
AIBranch(enabled, key) ==
    IF ~enabled THEN "disabled"
    ELSE IF key = "" THEN "nokey"
    ELSE "call"

\* An except block that replaces the output column by the failure message.
OnAIFailure_ReplacesPage(page, exc) == <<ErrorElem("AI assist failed", exc)>>

\* app.py:149-150: the except block of the AI section.
OnAIFailure(page, exc) == Append(page, ErrorElem("AI assist failed", exc))

\* app.py:146-147: the explanation is shown.
OnAISuccess(page, out) ==
    page \o <<Elem("success", "AI explanation generated.", Unset), Elem("json", "", out)>>

Idle == <<Elem("info", "Paste a schema and a payload, then click Validate.", Unset)>>

Init ==
    /\ pc = "idle"
    /\ schema_text = ""
    /\ payload_text = ""
    /\ strict_mode = TRUE
    /\ enable_ai = FALSE
    /\ api_key = ""
    /\ schema = Unset
    /\ payload = Unset
    /\ validator_schema = Unset
    /\ issues = <<>>
    /\ report = Unset
    /\ ui = Idle
    /\ ai_calls = <<>>
    /\ ai_content = Unset
    /\ ai_out = Unset

\* The user sets the widgets and presses Validate: the script runs from the
\* top, and app.py:87 creates the report.
Validate ==
    /\ pc \in {"idle", "done", "stopped"}
    /\ schema_text' \in Texts(SchemaDocs)
    /\ payload_text' \in Texts(PayloadDocs)
    /\ strict_mode' \in BOOLEAN
    /\ enable_ai' \in BOOLEAN
    /\ api_key' \in {"", "sk-key"}
    /\ pc' = "schema"
    /\ report' = Placeholder
    /\ schema' = Unset
    /\ payload' = Unset
    /\ validator_schema' = Unset
    /\ issues' = <<>>
    /\ ui' = <<>>
    /\ ai_calls' = <<>>
    /\ ai_content' = Unset
    /\ ai_out' = Unset

\* app.py:93-97
LoadSchema ==
    /\ pc = "schema"
    /\ LET r == _safe_json_load(schema_text) IN
       IF r.exc = ""
       THEN /\ schema' = r.v
            /\ pc' = "payload"
            /\ ui' = ui
       ELSE /\ ui' = Append(ui, ErrorElem("Schema is not valid JSON", r.exc))
            /\ pc' = AfterStageError
            /\ schema' = schema
    /\ UNCHANGED <<schema_text, payload_text, strict_mode, enable_ai, api_key,
                   payload, validator_schema, issues, report,
                   ai_calls, ai_content, ai_out>>

\* app.py:99-103
LoadPayload ==
    /\ pc = "payload"
    /\ LET r == _safe_json_load(payload_text) IN
       IF r.exc = ""
       THEN /\ payload' = r.v
            /\ pc' = "build"
            /\ ui' = ui
       ELSE /\ ui' = Append(ui, ErrorElem("Payload is not valid JSON", r.exc))
            /\ pc' = AfterStageError
            /\ payload' = payload
    /\ UNCHANGED <<schema_text, payload_text, strict_mode, enable_ai, api_key,
                   schema, validator_schema, issues, report,
                   ai_calls, ai_content, ai_out>>

\* app.py:106-107: the validator is built and its errors collected and sorted.
Collect(sch, instance, strict) ==
    LET b == _build_validator(sch, strict) IN
    IF b.exc # "" THEN [exc |-> b.exc, errs |-> <<>>, built |-> b]
    ELSE LET r == sorted(iter_errors(b.schema, instance)) IN
         [exc |-> r.exc, errs |-> r.errs, built |-> b]

\* app.py:105-113
BuildReport ==
    /\ pc = "build"
    /\ LET c == Collect(schema, payload, strict_mode) IN
       /\ schema' = c.built.caller
       /\ validator_schema' = c.built.schema
       /\ IF c.exc = ""
          THEN /\ issues' = c.errs
               /\ report' = FillReport(c.errs)
               /\ pc' = "show"
               /\ ui' = ui
          ELSE /\ ui' = Append(ui, ErrorElem("Validation error", c.exc))
               /\ pc' = AfterStageError
               /\ UNCHANGED <<issues, report>>
    /\ UNCHANGED <<schema_text, payload_text, strict_mode, enable_ai, api_key,
                   payload, ai_calls, ai_content, ai_out>>

\* app.py:115-132
ShowReport ==
    /\ pc = "show"
    /\ ui' = ui \o ReportElems(report)
    /\ pc' = "ai"
    /\ UNCHANGED <<schema_text, payload_text, strict_mode, enable_ai, api_key,
                   schema, payload, validator_schema, issues, report,
                   ai_calls, ai_content, ai_out>>

\* app.py:151-152
AIDisabled ==
    /\ pc = "ai"
    /\ AIBranch(enable_ai, api_key) = "disabled"
    /\ ui' = Append(ui, Elem("caption", "Enable AI assist", Unset))
    /\ pc' = "done"
    /\ UNCHANGED <<schema_text, payload_text, strict_mode, enable_ai, api_key,
                   schema, payload, validator_schema, issues, report,
                   ai_calls, ai_content, ai_out>>

\* app.py:136-137
AINoKey ==
    /\ pc = "ai"
    /\ AIBranch(enable_ai, api_key) = "nokey"
    /\ ui' = Append(ui, Elem("info", "AI is enabled, but no API key was provided.", Unset))
    /\ pc' = "done"
    /\ UNCHANGED <<schema_text, payload_text, strict_mode, enable_ai, api_key,
                   schema, payload, validator_schema, issues, report,
                   ai_calls, ai_content, ai_out>>

\* app.py:139-150: the one call, the guardrail, and the result or the failure.
\* ai_calls records each call of chat.completions.create with the report it
\* was given and the issues its prompt embeds.
AIExplain ==
    /\ pc = "ai"
    /\ AIBranch(enable_ai, api_key) = "call"
    /\ \E resp \in Responses :
         LET out == call_openai_for_explanation(resp)
             exc == IF out.exc # "" THEN out.exc ELSE Guardrail(out.v)
         IN /\ ai_calls' = Append(ai_calls, [report |-> report,
                                             prompt |-> build_ai_prompt(report)])
            /\ ai_content' = IF resp.ok THEN JStr(resp.content) ELSE JNull
            /\ ai_out' = out.v
            /\ ui' = IF exc = "" THEN OnAISuccess(ui, out.v) ELSE OnAIFailure(ui, exc)
    /\ pc' = "done"
    /\ UNCHANGED <<schema_text, payload_text, strict_mode, enable_ai, api_key,
                   schema, payload, validator_schema, issues, report>>

Next ==
    \/ Validate
    \/ LoadSchema
    \/ LoadPayload
    \/ BuildReport
    \/ ShowReport
    \/ AIDisabled
    \/ AINoKey
    \/ AIExplain

Spec == Init /\ [][Next]_vars

---------------------------------------------------------------------------
(* Properties *)

\* What the texts of this run parse to.
SchemaLoad == json_loads(schema_text)
PayloadLoad == json_loads(payload_text)
InputsParse == SchemaLoad.exc = "" /\ PayloadLoad.exc = ""

\* The run is past the validation stage with a report.
Reported == pc \in {"show", "ai", "done"}
\* The run has rendered the report.
Displayed == pc \in {"ai", "done"}

Consistent(r) ==
    /\ r.issue_count = Len(r.issues)
    /\ r.pass = (r.issue_count = 0)

HasElem(w) == \E i \in 1..Len(ui) : ui[i].w = w
HasText(text) == \E i \in 1..Len(ui) : ui[i].text = text

\* C1: every report displayed, exported or passed to the explanation call
\* has issue_count = len(issues) and pass = (issue_count = 0); the
\* placeholder report of app.py:87 is never displayed, exported or passed on.
C1_ShownReportsConsistent ==
    /\ Displayed =>
         /\ Consistent(report)
         /\ report # Placeholder
         /\ SubSeq(ui, 1, 3) = ReportElems(report)
    /\ \A i \in 1..Len(ui) :
         /\ ui[i].w = "download_button" =>
              Consistent(ui[i].arg.r) /\ ui[i].arg.r # Placeholder
         /\ ui[i].text = "FAIL" => Displayed /\ ui[i].arg.n = Len(report.issues)
                                   /\ ui[i].arg.n > 0
         /\ ui[i].text = "PASS" => Displayed /\ Len(report.issues) = 0
         /\ ui[i].w = "dataframe" => Displayed /\ ui[i].arg.rows = report.issues
    /\ \A i \in 1..Len(ai_calls) :
         Consistent(ai_calls[i].report) /\ ai_calls[i].report # Placeholder

C1_Witness ==
    /\ pc = "done"
    /\ Len(ai_calls) = 1
    /\ ai_calls[1].report.issue_count = 2
    /\ HasText("FAIL")
    /\ HasElem("download_button")

\* A schema with a type name that is no JSON Schema type, at the top or in a
\* subschema under properties, items or additionalProperties.
RECURSIVE Malformed(_)
Malformed(sch) ==
    /\ IsObj(sch)
    /\ \/ /\ HasKey(sch, "type")
          /\ IsStr(Get(sch, "type"))
          /\ Get(sch, "type").s \notin KnownTypes
       \/ /\ HasKey(sch, "properties")
          /\ IsObj(Get(sch, "properties"))
          /\ \E i \in 1..Len(Get(sch, "properties").o) :
                 Malformed(Get(sch, "properties").o[i][2])
       \/ HasKey(sch, "items") /\ Malformed(Get(sch, "items"))
       \/ HasKey(sch, "additionalProperties")
          /\ Malformed(Get(sch, "additionalProperties"))

\* C2: a malformed schema always makes report building fail with an error
\* shown to the user and never yields a report.
C2_MalformedSchemaNeverReports ==
    (InputsParse /\ Malformed(SchemaLoad.v)) =>
        /\ ~Reported
        /\ ~HasElem("download_button")
        /\ ~HasText("PASS")
        /\ pc = "stopped" => ui = <<ErrorElem("Validation error", "UnknownType")>>

\* The alternate answer: no summary, no top_issues, an explanation str and a
\* fixes list of {field, action} pairs.
AlternateShape(data) ==
    /\ IsObj(data)
    /\ ~HasKey(data, "summary")
    /\ ~HasKey(data, "top_issues")
    /\ HasKey(data, "explanation") /\ IsStr(Get(data, "explanation"))
    /\ HasKey(data, "fixes") /\ IsArr(Get(data, "fixes"))
    /\ \A i \in 1..Len(Get(data, "fixes").a) :
         LET f == Get(data, "fixes").a[i] IN
         /\ IsObj(f)
         /\ HasKey(f, "field") /\ IsStr(Get(f, "field"))
         /\ HasKey(f, "action") /\ IsStr(Get(f, "action"))

\* The object the fallback is said to produce.
Reshaped(data) ==
    JObj(<< <<"summary", Get(data, "explanation")>>,
            <<"top_issues", JArr(<<>>)>>,
            <<"suggested_fixes",
              JArr([i \in 1..Len(Get(data, "fixes").a) |->
                     JObj(<< <<"target", JStr("payload:/" \o Get(Get(data, "fixes").a[i], "field").s)>>,
                             <<"suggestion", Get(Get(data, "fixes").a[i], "action")>> >>)])>>,
            <<"risk_notes", JArr(<<>>)>> >>)

AnsweredAlternate ==
    /\ pc = "done"
    /\ Len(ai_calls) = 1
    /\ ai_content.t = "str"
    /\ json_loads(ai_content.s).exc = ""
    /\ AlternateShape(json_loads(ai_content.s).v)
    /\ Len(Get(json_loads(ai_content.s).v, "explanation").s) <= SummaryLimit

\* C3: an answer of the alternate shape is reshaped to the canonical object,
\* which passes AI_OUTPUT_SCHEMA, so the explanation is shown, not an error.
C3_FallbackSurfaced ==
    AnsweredAlternate =>
        /\ ai_out = Reshaped(json_loads(ai_content.s).v)
        /\ iter_errors(AI_OUTPUT_SCHEMA, ai_out) = NoErrors
        /\ \E i \in 1..Len(ui) : ui[i].w = "json" /\ ui[i].arg = ai_out
        /\ ~HasText("AI assist failed")

\* The raw errors the engine yields in this run, in the engine's order.
RawErrors == iter_errors(validator_schema, payload).errs

Occurrences(e, errs) == Cardinality({i \in 1..Len(errs) : errs[i] = e})

Segments == {IdxSeg(0), IdxSeg(1), KeySeg("a"), KeySeg("b")}
SegmentPaths ==
    {<<>>} \cup {<<a>> : a \in Segments} \cup {<<a, b>> : a \in Segments, b \in Segments}

ErrorAt(path) ==
    [ValidationError("is not of type", JStr("type"), JStr("string"), JNull)
        EXCEPT !.path = path]

ExpectedEffective(s, strict) ==
    IF strict /\ GetOr(s, "type", JNull) = JStr("object")
              /\ ~HasKey(s, "additionalProperties")
    THEN JObj(s.o \o << <<"additionalProperties", JBool(FALSE)>> >>)
    ELSE s

\* C5: for an object schema s, the validator's schema is s when strict is
\* false, and when strict is true it is s with additionalProperties=false
\* added exactly when s.type = "object" and s has no additionalProperties
\* key; the caller's schema object is unchanged by the call.
C5_StrictRewrite ==
    (pc \in {"show", "ai", "done", "stopped"} /\ InputsParse /\ IsObj(SchemaLoad.v)) =>
        /\ validator_schema = ExpectedEffective(SchemaLoad.v, strict_mode)
        /\ schema = SchemaLoad.v

C5_Witness ==
    /\ pc = "show"
    /\ strict_mode
    /\ IsObj(schema)
    /\ ~HasKey(schema, "additionalProperties")
    /\ HasKey(validator_schema, "additionalProperties")
    /\ Get(validator_schema, "additionalProperties") = JBool(FALSE)

\* The report of this run's inputs, whatever the AI settings are.
ExpectedReport == FillReport(Collect(SchemaLoad.v, PayloadLoad.v, strict_mode).errs)

\* The explanation was asked for and not shown, or could not be asked for.
ExplanationFailedOrSkipped ==
    /\ pc = "done"
    /\ enable_ai
    /\ ~HasElem("json")

\* C6: when the explanation step fails or is skipped for want of a key, the
\* report is unchanged and still displayed and downloadable, as in a run
\* with AI assist disabled, and only one message about the AI is added.
C6_ReportSurvivesAIFailure ==
    ExplanationFailedOrSkipped =>
        /\ report = ExpectedReport
        /\ Len(ui) = 4
        /\ SubSeq(ui, 1, 3) = ReportElems(ExpectedReport)
        /\ ui[4].w \in {"error", "info"}
        /\ ui[4].text \in {"AI assist failed", "AI is enabled, but no API key was provided."}

C6_Witness ==
    /\ ExplanationFailedOrSkipped
    /\ Len(ai_calls) = 1
    /\ ai_content = JStr("Here is the explanation you wanted")
    /\ report.issue_count = 1

\* The error the validation stage reports for this run's inputs; Unset when
\* the stage succeeds.
StageError ==
    IF SchemaLoad.exc # "" THEN ErrorElem("Schema is not valid JSON", SchemaLoad.exc)
    ELSE IF PayloadLoad.exc # "" THEN ErrorElem("Payload is not valid JSON", PayloadLoad.exc)
    ELSE IF Collect(SchemaLoad.v, PayloadLoad.v, strict_mode).exc # ""
         THEN ErrorElem("Validation error", Collect(SchemaLoad.v, PayloadLoad.v, strict_mode).exc)
    ELSE Unset

\* C7: when a text is not JSON or building or running the validator raises,
\* the run shows exactly that error and stops: no pass/fail banner, no issue
\* list, no export, no explanation call.
C7_StageErrorHalts ==
    (pc # "idle" /\ StageError # Unset) =>
        /\ pc \in {"schema", "payload", "build", "stopped"}
        /\ ui \in {<<>>, <<StageError>>}
        /\ pc = "stopped" <=> ui = <<StageError>>
        /\ ai_calls = <<>>
        /\ report = Placeholder

C7_Witness ==
    /\ pc = "stopped"
    /\ InputsParse
    /\ ui = <<ErrorElem("Validation error", "UnknownType")>>

\* C8: with strict mode on, a schema that is no JSON object, or an object
\* without a type, is taken as it is: the rewrite raises nothing and the
\* validator is built on that schema.
C8_StrictAcceptsAnySchema ==
    (pc \in {"show", "ai", "done", "stopped"} /\ InputsParse /\ strict_mode
       /\ (~IsObj(SchemaLoad.v) \/ ~HasKey(SchemaLoad.v, "type"))) =>
        /\ _build_validator(SchemaLoad.v, strict_mode).exc = ""
        /\ validator_schema = SchemaLoad.v

\* The explanation call of this run failed: the request, the parse, the
\* fallback mapping or the schema check.
ExplanationFailed ==
    /\ Len(ai_calls) = 1
    /\ \/ ai_content = JNull
       \/ Adapt(ai_content.s).exc # ""
       \/ iter_errors(AI_OUTPUT_SCHEMA, Adapt(ai_content.s).v) # NoErrors

\* C9: an explanation object is shown only if the answer parsed as JSON and
\* the object (after the fallback, when it applies) conforms to
\* AI_OUTPUT_SCHEMA; when the parse or the check fails no object is shown,
\* only the failure message.
C9_OnlyCheckedExplanationsShown ==
    /\ \A i \in 1..Len(ui) : ui[i].w = "json" =>
         /\ ai_content.t = "str"
         /\ json_loads(ai_content.s).exc = ""
         /\ ui[i].arg = Adapt(ai_content.s).v
         /\ iter_errors(AI_OUTPUT_SCHEMA, ui[i].arg) = NoErrors
         /\ ~HasText("AI assist failed")
    /\ ExplanationFailed =>
         /\ ~HasElem("json")
         /\ ~HasText("AI explanation generated.")
         /\ ui[Len(ui)].text = "AI assist failed"

C9_Witness ==
    /\ HasElem("json")
    /\ ExplanationFailed = FALSE
    /\ Len(ai_calls) = 1

===========================================================================
